---- MODULE Spec2Model ----
(***************************************************************************)
(* Review Management API: the in-memory review list (main.py reviews_db),  *)
(* the SQLite review store (database.py ReviewDatabase), the reply         *)
(* generator (ai_services.py) and the similarity finder                    *)
(* (search_service.py).                                                    *)
(*                                                                         *)
(* Every request handler of main.py is an `async def` without an await,    *)
(* so a handler runs to completion before the next one starts: one action  *)
(* per handler.  Every call into the store may raise inside the database   *)
(* method (the methods catch it and return False / "[]" / None): each such *)
(* call takes a fault flag drawn from BOOLEAN.                             *)
(*                                                                         *)
(* Spec is the server handling one request at a time.  SpecEnrich applies  *)
(* the two enrichment functions to inputs of their own.  SpecConcurrent    *)
(* runs two generate_reply calls on separate threads of control over one   *)
(* store, step by step (variable calls).                                   *)
(***************************************************************************)
EXTENDS Integers, Sequences, FiniteSets, TLC

VARIABLES reviews_db, store, last, calls

vars == <<reviews_db, store, last, calls>>

\* ------------------------------------------------------------- bounds
\* Longest in-memory list the model lets the ingest handler build.
MaxMem == 3
\* Longest batch of one ingest request.
MaxBatch == 2
\* Longest text, in words, given to extract_topics on its own.
MaxWords == 2

\* ------------------------------------------------------------- values
\* Python's None / SQL NULL.
None == "<None>"

\* Review ids that requests ingest, in a fixed order.
IdSeq == <<"rev001", "rev002">>
Ids == {IdSeq[i] : i \in 1..Len(IdSeq)}
\* An id that is never ingested, for requests that name an unknown review.
UnknownId == "rev999"
QueryIds == Ids \cup {UnknownId}

\* Review texts: one that consists of English stop words only, one with
\* content terms.
Texts == {"the", "great service"}

\* ReviewInput: the caller-supplied fields; location, rating and date are
\* copied as they come and take one value each.
ReviewInputs ==
    [id : Ids, location : {"New York"}, rating : {5}, date : {"2025-10-04"},
     text : Texts]

RECURSIVE SeqsUpTo(_, _)
SeqsUpTo(S, n) ==
    IF n = 0 THEN {<<>>}
    ELSE LET shorter == SeqsUpTo(S, n - 1)
         IN  shorter \cup {Append(q, x) : q \in {p \in shorter : Len(p) = n - 1}, x \in S}

\* Python truthiness of an Optional[str].
Truthy(v) == v /= None /\ v /= ""

Min(a, b) == IF a <= b THEN a ELSE b

HasId(seq, id) == \E i \in 1..Len(seq) : seq[i].id = id

\* next(r for r in seq if r["id"] == id), for a seq that holds the id.
FirstWithId(seq, id) ==
    seq[CHOOSE i \in 1..Len(seq) :
            seq[i].id = id /\ \A j \in 1..(i - 1) : seq[j].id /= id]

\* ------------------------------------------------- ai_services.py
FallbackTechnical == "Thank you for your feedback. We encountered a technical issue"
FallbackSupport == "Thank you for your message. We'll get back to you via support soon."

\* A response of the text-generation service: the call raised, or it
\* returned an object with a text attribute (None when there is none) and a
\* candidates[0].text access that raises ("<raises>") or yields a value.
CandRaises == "<raises>"

GenerateReviewReply_generate_reply(resp) ==
    IF resp.raised THEN FallbackTechnical
    ELSE IF resp.text /= None THEN resp.text
    ELSE IF resp.cand = CandRaises THEN FallbackSupport
    ELSE resp.cand

\* The responses the handlers' runs draw from: an error of the service, a
\* generated text, and an empty text.
Responses ==
    { [raised |-> TRUE,  text |-> None, cand |-> CandRaises],
      [raised |-> FALSE, text |-> "Thank you, we are sorry.", cand |-> CandRaises],
      [raised |-> FALSE, text |-> "", cand |-> CandRaises] }

\* ------------------------------------------------- database.py
\* JSON text is kept as the value it encodes; json.loads gives it back.
json_dumps(value) == [json |-> value]
json_loads(doc) == doc.json

\* A row of table reviews; the table is the sequence of its rows in rowid
\* order, id being the primary key.
Row(review) ==
    [id |-> review.id, location |-> review.location, rating |-> review.rating,
     date |-> review.date, text |-> review.text, sentiment |-> review.sentiment,
     topics |-> json_dumps(review.topics), suggested_reply |-> None]

\* One INSERT statement: IntegrityError on a primary-key collision.
Insert(rows, review) ==
    IF HasId(rows, review.id)
    THEN [ok |-> FALSE, rows |-> rows]
    ELSE [ok |-> TRUE, rows |-> Append(rows, Row(review))]

\* INSERT OR REPLACE in place of INSERT.
add_review_replace(rows, review, fault) ==
    IF fault THEN [ok |-> FALSE, rows |-> rows]
    ELSE [ok |-> TRUE,
          rows |-> IF HasId(rows, review.id)
                   THEN [i \in 1..Len(rows) |->
                            IF rows[i].id = review.id THEN Row(review) ELSE rows[i]]
                   ELSE Append(rows, Row(review))]

\* ReviewDatabase.add_review: [ok, rows] = the returned bool and the table
\* after the call.  fault: the connection, the statement or the commit
\* raised an error other than IntegrityError.
add_review(rows, review, fault) ==
    IF fault THEN [ok |-> FALSE, rows |-> rows]
    ELSE Insert(rows, review)

\* cursor.executemany: the INSERTs run in order inside one transaction and
\* stop at the first that fails; rows is the table as the transaction sees it.
RECURSIVE ExecuteMany(_, _)
ExecuteMany(rows, reviews) ==
    IF reviews = <<>> THEN [ok |-> TRUE, rows |-> rows]
    ELSE LET r == Insert(rows, Head(reviews))
         IN  IF r.ok THEN ExecuteMany(r.rows, Tail(reviews)) ELSE r

\* add_reviews_batch without the rollback: the rows inserted before the
\* failing one stay.
add_reviews_batch_norollback(rows, reviews, fault) ==
    IF fault THEN [ok |-> FALSE, rows |-> rows]
    ELSE ExecuteMany(rows, reviews)

\* ReviewDatabase.add_reviews_batch: commit when every INSERT succeeded,
\* rollback otherwise.
add_reviews_batch(rows, reviews, fault) ==
    IF fault THEN [ok |-> FALSE, rows |-> rows]
    ELSE LET r == ExecuteMany(rows, reviews)
         IN  IF r.ok THEN r ELSE [ok |-> FALSE, rows |-> rows]

\* add_suggested_reply without its commit: the UPDATE stays in the
\* connection's open transaction and the table the other connections read
\* is as before.
add_suggested_reply_uncommitted(rows, review_id, suggested_reply, fault) ==
    IF fault THEN [ok |-> FALSE, rows |-> rows]
    ELSE [ok |-> HasId(rows, review_id), rows |-> rows]

\* add_suggested_reply whose UPDATE has no WHERE clause.
add_suggested_reply_all_rows(rows, review_id, suggested_reply, fault) ==
    IF fault THEN [ok |-> FALSE, rows |-> rows]
    ELSE [ok |-> rows /= <<>>,
          rows |-> [i \in 1..Len(rows) |->
                       [rows[i] EXCEPT !.suggested_reply = suggested_reply]]]

\* ReviewDatabase.add_suggested_reply: UPDATE ... WHERE id = ?; False when
\* no row matched or on an error.
add_suggested_reply(rows, review_id, suggested_reply, fault) ==
    IF fault THEN [ok |-> FALSE, rows |-> rows]
    ELSE [ok |-> HasId(rows, review_id),
          rows |-> [i \in 1..Len(rows) |->
                       IF rows[i].id = review_id
                       THEN [rows[i] EXCEPT !.suggested_reply = suggested_reply]
                       ELSE rows[i]]]

\* The dict get_all_reviews_as_json builds of a row: suggested_reply only
\* when it is truthy.
RowDict(row) ==
    LET review == [id |-> row.id, location |-> row.location, rating |-> row.rating,
                   date |-> row.date, text |-> row.text, sentiment |-> row.sentiment,
                   topics |-> json_loads(row.topics)]
    IN  IF Truthy(row.suggested_reply)
        THEN [id |-> review.id, location |-> review.location, rating |-> review.rating,
              date |-> review.date, text |-> review.text, sentiment |-> review.sentiment,
              topics |-> review.topics, suggested_reply |-> row.suggested_reply]
        ELSE review

\* ReviewDatabase.get_all_reviews_as_json: "[]" on an error.
get_all_reviews_as_json(rows, fault) ==
    IF fault THEN json_dumps(<<>>)
    ELSE json_dumps([i \in 1..Len(rows) |-> RowDict(rows[i])])

\* ReviewDatabase.get_suggested_reply: None when there is no row, when the
\* column is NULL or empty, and on an error.
get_suggested_reply(rows, review_id, fault) ==
    IF fault THEN None
    ELSE IF HasId(rows, review_id) /\ Truthy(FirstWithId(rows, review_id).suggested_reply)
         THEN FirstWithId(rows, review_id).suggested_reply
         ELSE None

\* ------------------------------------------------- search_service.py
\* The terms TfidfVectorizer(stop_words='english', ngram_range=(1, 2)) keeps
\* of a text.
Terms(text) ==
    CASE text = "the" -> {}
      [] text = "great service" -> {"great", "service", "great service"}

\* cosine_similarity of the TF-IDF rows of two texts, for texts whose term
\* lists are equal or disjoint (all of Texts): 1 and 0; a text without
\* terms has the zero vector, at cosine 0 to every text.
Cosine(a, b) == IF Terms(a) \cap Terms(b) = {} THEN 0 ELSE 1

IndexOrders(n) ==
    {p \in [1..n -> 1..n] : \A i, j \in 1..n : i /= j => p[i] /= p[j]}

\* np.argsort(similarities): the orders that sort the values ascending (the
\* order among equal values is the sort's own).
ArgSorts(sims) ==
    {p \in IndexOrders(Len(sims)) :
        \A i \in 1..(Len(sims) - 1) : sims[p[i]] <= sims[p[i + 1]]}

\* The corpus find_similar_reviews runs on: the store's rows, or the
\* in-memory list when the store's read is empty or failed.
Corpus(rows, mem, fault) ==
    LET all_reviews == json_loads(get_all_reviews_as_json(rows, fault))
    IN  IF all_reviews = <<>> THEN mem ELSE all_reviews

\* target_idx after the loop: the last index that holds review_id, 0 for
\* Python's None.
TargetIdx(all_reviews, review_id) ==
    IF HasId(all_reviews, review_id)
    THEN CHOOSE i \in 1..Len(all_reviews) :
             /\ all_reviews[i].id = review_id
             /\ \A j \in (i + 1)..Len(all_reviews) : all_reviews[j].id /= review_id
    ELSE 0

\* find_similar_reviews with the lookup of review_id moved before the
\* corpus-size test.
find_similar_reviews_lookup_first(review_id, rows, mem, fault) ==
    LET all_reviews == Corpus(rows, mem, fault)
        n == Len(all_reviews)
        target_idx == TargetIdx(all_reviews, review_id)
        similarities ==
            [i \in 1..n |->
                IF i = target_idx THEN -1
                ELSE Cosine(all_reviews[target_idx].text, all_reviews[i].text)]
        num_similar == Min(2, n - 1)
    IN  IF target_idx = 0 THEN {[status |-> "not_found", similar |-> <<>>]}
        ELSE IF n < 2 THEN {[status |-> "ok", similar |-> <<>>]}
        ELSE IF \A i \in 1..n : Terms(all_reviews[i].text) = {}
             THEN {[status |-> "empty_vocabulary", similar |-> <<>>]}
        ELSE {[status |-> "ok",
               similar |-> [k \in 1..num_similar |-> all_reviews[p[n + 1 - k]].id]]
              : p \in ArgSorts(similarities)}

\* find_similar_reviews: the set of its possible outcomes, each
\* [status, similar]: "ok" with the returned ids, "not_found" for the
\* ValueError of line 44, "empty_vocabulary" for the ValueError fit_transform
\* raises when no text has a term.
find_similar_reviews(review_id, rows, mem, fault) ==
    LET all_reviews == Corpus(rows, mem, fault)
        n == Len(all_reviews)
        target_idx == TargetIdx(all_reviews, review_id)
        similarities ==
            [i \in 1..n |->
                IF i = target_idx THEN -1
                ELSE Cosine(all_reviews[target_idx].text, all_reviews[i].text)]
        num_similar == Min(2, n - 1)
    IN  IF n < 2 THEN {[status |-> "ok", similar |-> <<>>]}
        ELSE IF target_idx = 0 THEN {[status |-> "not_found", similar |-> <<>>]}
        ELSE IF \A i \in 1..n : Terms(all_reviews[i].text) = {}
             THEN {[status |-> "empty_vocabulary", similar |-> <<>>]}
        ELSE {[status |-> "ok",
               similar |-> [k \in 1..num_similar |-> all_reviews[p[n + 1 - k]].id]]
              : p \in ArgSorts(similarities)}

\* ------------------------------------------------- main.py
\* A text as extract_topics' patterns see it: its words in order, each with
\* the separator that follows it.
Word(w) == <<[word |-> w, sep |-> ""]>>
Phrase(a, s, b) == <<[word |-> a, sep |-> s], [word |-> b, sep |-> ""]>>

Tokens(text) ==
    CASE text = "the" -> Word("the")
      [] text = "great service" -> Phrase("great", " ", "service")

\* TOPIC_KEYWORDS, in the dictionary's order.
TOPIC_KEYWORDS ==
    << [topic |-> "professionalism",
        keywords |-> <<Word("professional"), Word("professionalism"), Word("expert"),
                       Word("expertise"), Word("skilled"), Word("competent")>>],
       [topic |-> "efficiency",
        keywords |-> <<Word("efficient"), Word("efficiency"), Word("quick"), Word("fast"),
                       Word("timely"), Word("prompt"), Word("speedy")>>],
       [topic |-> "quality",
        keywords |-> <<Word("quality"), Word("excellent"), Word("perfect"), Word("great"),
                       Word("outstanding"), Word("superb"), Phrase("top", "-", "notch")>>],
       [topic |-> "customer_service",
        keywords |-> <<Word("service"), Word("helpful"), Word("friendly"),
                       Word("courteous"), Word("attentive"), Word("responsive")>>],
       [topic |-> "communication",
        keywords |-> <<Word("communication"), Word("communicate"), Word("informed"),
                       Word("updates"), Word("clear"), Word("transparent")>>],
       [topic |-> "timeliness",
        keywords |-> <<Phrase("on", " ", "time"), Word("punctual"), Word("deadline"),
                       Word("schedule"), Word("timely")>>],
       [topic |-> "price",
        keywords |-> <<Word("price"), Word("cost"), Word("expensive"), Word("cheap"),
                       Word("affordable"), Word("value"), Word("worth")>>],
       [topic |-> "cleanliness",
        keywords |-> <<Word("clean"), Word("cleanliness"), Word("tidy"), Word("neat"),
                       Word("spotless"), Word("organized")>>],
       [topic |-> "reliability",
        keywords |-> <<Word("reliable"), Word("dependable"), Word("trustworthy"),
                       Word("consistent"), Word("trust")>>],
       [topic |-> "experience",
        keywords |-> <<Word("experience"), Word("knowledgeable"), Word("seasoned"),
                       Word("veteran")>>] >>

\* str.lower on a word (the words with capitals that the texts use).
LowerWord(w) ==
    CASE w = "Professional" -> "professional"
      [] OTHER -> w

Lower(tokens) ==
    [i \in 1..Len(tokens) |-> [word |-> LowerWord(tokens[i].word), sep |-> tokens[i].sep]]

\* re.search(r'\b' + re.escape(keyword) + r'\b', text_lower): the keyword's
\* words occur in a row as whole words, with the keyword's own separators
\* between them.
Search(keyword, text_lower) ==
    \E i \in 1..(Len(text_lower) - Len(keyword) + 1) :
        \A j \in 1..Len(keyword) :
            /\ text_lower[i + j - 1].word = keyword[j].word
            /\ j < Len(keyword) => text_lower[i + j - 1].sep = keyword[j].sep

\* The keyword loop without its break: one entry per matching keyword.
RECURSIVE KeywordLoopNoBreak(_, _, _, _)
KeywordLoopNoBreak(matched_topics, topic, keywords, text_lower) ==
    IF keywords = <<>> THEN matched_topics
    ELSE KeywordLoopNoBreak(
             IF Search(Head(keywords), text_lower)
             THEN Append(matched_topics, topic) ELSE matched_topics,
             topic, Tail(keywords), text_lower)

\* The loop of lines 122-127 over one topic's keywords: the topic is
\* appended at the first keyword found and the loop left.
RECURSIVE KeywordLoop(_, _, _, _)
KeywordLoop(matched_topics, topic, keywords, text_lower) ==
    IF keywords = <<>> THEN matched_topics
    ELSE IF Search(Head(keywords), text_lower)
         THEN Append(matched_topics, topic)
         ELSE KeywordLoop(matched_topics, topic, Tail(keywords), text_lower)

\* The loop of line 121 over the topics.
RECURSIVE TopicLoop(_, _, _)
TopicLoop(matched_topics, topics, text_lower) ==
    IF topics = <<>> THEN matched_topics
    ELSE TopicLoop(KeywordLoop(matched_topics, Head(topics).topic,
                               Head(topics).keywords, text_lower),
                   Tail(topics), text_lower)

\* extract_topics, on the text's words.
extract_topics(tokens) ==
    LET matched_topics == TopicLoop(<<>>, TOPIC_KEYWORDS, Lower(tokens))
    IN  IF matched_topics /= <<>> THEN matched_topics ELSE <<"general">>

\* Compound scores count in units of 1/ScoreScale (polarity_scores rounds
\* the compound score to four decimals); Threshold is 0.05.
ScoreScale == 10000
Threshold == 500

\* analyze_sentiment with strict comparisons.
SentimentOfStrict(compound) ==
    IF compound > Threshold THEN "positive"
    ELSE IF compound < -Threshold THEN "negative"
    ELSE "neutral"

\* analyze_sentiment, lines 105-110, on the compound score.
SentimentOf(compound) ==
    IF compound >= Threshold THEN "positive"
    ELSE IF compound <= -Threshold THEN "negative"
    ELSE "neutral"

\* sia.polarity_scores(text)['compound'] of the review texts: no lexicon
\* word in "the"; "great" (valence 3.1) in "great service".
Compound(text) ==
    CASE text = "the" -> 0
      [] text = "great service" -> 6249

analyze_sentiment(text) == SentimentOf(Compound(text))

\* What the two functions give for each review text (computed once).
SentimentByText == [text \in Texts |-> analyze_sentiment(text)]
TopicsByText == [text \in Texts |-> extract_topics(Tokens(text))]

\* The enriched review process_single_review builds.
Enriched(review_data) ==
    [id |-> review_data.id, location |-> review_data.location,
     rating |-> review_data.rating, date |-> review_data.date,
     text |-> review_data.text, sentiment |-> SentimentByText[review_data.text],
     topics |-> TopicsByText[review_data.text]]

\* The response of the request being answered, with what the request logged:
\*   op, id, arg   the request (arg: the reviews of an ingest)
\*   status        the HTTP status, or find_similar_reviews' outcome
\*   reply, review_text   suggested_reply / reply and review_text of the response
\*   gen           how often the request called the reply generator
\*   stored        what add_review / add_reviews_batch returned
\*   db_error      a store call of the request raised (the database methods
\*                 print "Error ..." and return False / "[]" / None)
\*   body          the reviews of the response
\*   similar       the ids find_similar_reviews returned
NoResult ==
    [op |-> "idle", id |-> None, arg |-> <<>>, status |-> "", reply |-> None,
     review_text |-> None, gen |-> 0, stored |-> FALSE, db_error |-> FALSE,
     body |-> <<>>, similar |-> <<>>]

\* process_single_review: whether it raises the 400 for review_data.
IdExists(mem, review_data) == HasId(mem, review_data.id)

\* ingest_single that writes to the store first and, when add_review
\* returns False, answers 500 and keeps nothing.
ingest_single_abort(mem, rows, review) ==
    IF IdExists(mem, review)
    THEN {[mem |-> mem, rows |-> rows,
           response |-> [NoResult EXCEPT !.op = "ingest", !.arg = <<review>>,
                                         !.status = "400"]]}
    ELSE {LET enriched_review == Enriched(review)
              added == add_review(rows, enriched_review, fault)
          IN  IF added.ok
              THEN [mem |-> Append(mem, enriched_review),
                    rows |-> added.rows,
                    response |-> [NoResult EXCEPT !.op = "ingest", !.arg = <<review>>,
                                     !.status = "200", !.stored = TRUE,
                                     !.db_error = fault, !.body = <<enriched_review>>]]
              ELSE [mem |-> mem,
                    rows |-> rows,
                    response |-> [NoResult EXCEPT !.op = "ingest", !.arg = <<review>>,
                                     !.status = "500", !.db_error = fault]]
          : fault \in BOOLEAN}

\* POST /ingest with one review: the outcomes [mem, rows, response], one
\* for each way the store call can go.
ingest_single(mem, rows, review) ==
    IF IdExists(mem, review)
    THEN {[mem |-> mem, rows |-> rows,
           response |-> [NoResult EXCEPT !.op = "ingest", !.arg = <<review>>,
                                         !.status = "400"]]}
    ELSE {LET enriched_review == Enriched(review)
              added == add_review(rows, enriched_review, fault)
          IN  [mem |-> Append(mem, enriched_review),
               rows |-> added.rows,
               response |-> [NoResult EXCEPT !.op = "ingest", !.arg = <<review>>,
                                !.status = "200", !.stored = added.ok,
                                !.db_error = fault, !.body = <<enriched_review>>]]
          : fault \in BOOLEAN}

\* POST /ingest with a list of reviews.
ingest_batch(mem, rows, review) ==
    IF \E i \in 1..Len(review) : IdExists(mem, review[i])
    THEN {[mem |-> mem, rows |-> rows,
           response |-> [NoResult EXCEPT !.op = "ingest_batch", !.arg = review,
                                         !.status = "400"]]}
    ELSE {LET enriched_reviews == [i \in 1..Len(review) |-> Enriched(review[i])]
              added == add_reviews_batch(rows, enriched_reviews, fault)
          IN  [mem |-> mem \o enriched_reviews,
               rows |-> added.rows,
               response |-> [NoResult EXCEPT !.op = "ingest_batch", !.arg = review,
                                !.status = "200", !.stored = added.ok,
                                !.db_error = fault, !.body = enriched_reviews]]
          : fault \in BOOLEAN}

\* get_all_reviews that serves the in-memory list first and reads the store
\* only when the list is empty.
get_all_reviews_memory_first(mem, rows) ==
    {LET db_reviews == json_loads(get_all_reviews_as_json(rows, fault))
     IN  [NoResult EXCEPT !.op = "list", !.status = "200", !.db_error = fault,
             !.body = IF mem /= <<>> THEN mem ELSE db_reviews]
     : fault \in BOOLEAN}

\* GET /all-reviews: the possible responses.
get_all_reviews(mem, rows) ==
    {LET db_reviews == json_loads(get_all_reviews_as_json(rows, fault))
     IN  [NoResult EXCEPT !.op = "list", !.status = "200", !.db_error = fault,
             !.body = IF db_reviews /= <<>> THEN db_reviews ELSE mem]
     : fault \in BOOLEAN}

\* generate_reply, lines 259-280: the review the handler finds for
\* review_id, as the set of [found, text, db_error] it can come to.
ResolveReview(mem, rows, review_id) ==
    IF HasId(mem, review_id)
    THEN {[found |-> TRUE, text |-> FirstWithId(mem, review_id).text, db_error |-> FALSE]}
    ELSE {LET all_reviews == json_loads(get_all_reviews_as_json(rows, faultAll))
          IN  IF HasId(all_reviews, review_id)
              THEN [found |-> TRUE, text |-> FirstWithId(all_reviews, review_id).text,
                    db_error |-> faultAll]
              ELSE [found |-> FALSE, text |-> None, db_error |-> faultAll]
          : faultAll \in BOOLEAN}

\* ReplyFor that raises, and so answers 500, when add_suggested_reply
\* returns False.
ReplyFor_checked_write(rows, review_id, review) ==
    UNION {
      LET existing_reply == get_suggested_reply(rows, review_id, faultGet)
          result == [NoResult EXCEPT !.op = "generate", !.id = review_id]
      IN  IF Truthy(existing_reply)
          THEN {[rows |-> rows,
                 response |-> [result EXCEPT !.status = "200", !.reply = existing_reply,
                                  !.review_text = review.text,
                                  !.db_error = review.db_error]]}
          ELSE {LET suggested_reply == GenerateReviewReply_generate_reply(resp)
                    written == add_suggested_reply(rows, review_id,
                                                   suggested_reply, faultSet)
                    err == review.db_error \/ faultGet \/ faultSet
                IN  [rows |-> written.rows,
                     response |->
                        IF suggested_reply = None \/ ~written.ok
                        THEN [result EXCEPT !.status = "500", !.gen = 1,
                                            !.db_error = err]
                        ELSE [result EXCEPT !.status = "200", !.gen = 1,
                                            !.reply = suggested_reply,
                                            !.review_text = review.text,
                                            !.db_error = err]]
                : resp \in Responses, faultSet \in BOOLEAN}
      : faultGet \in BOOLEAN}

\* generate_reply, lines 282-322, for a review that was found: the cached
\* reply, or a generated one that is written back.
ReplyFor(rows, review_id, review) ==
    UNION {
      LET existing_reply == get_suggested_reply(rows, review_id, faultGet)
          result == [NoResult EXCEPT !.op = "generate", !.id = review_id]
      IN  IF Truthy(existing_reply)
          THEN {[rows |-> rows,
                 response |-> [result EXCEPT !.status = "200", !.reply = existing_reply,
                                  !.review_text = review.text,
                                  !.db_error = review.db_error]]}
          ELSE {LET suggested_reply == GenerateReviewReply_generate_reply(resp)
                    written == add_suggested_reply(rows, review_id,
                                                   suggested_reply, faultSet)
                    err == review.db_error \/ faultGet \/ faultSet
                IN  [rows |-> written.rows,
                     response |->
                        IF suggested_reply = None
                        THEN [result EXCEPT !.status = "500", !.gen = 1,
                                            !.db_error = err]
                        ELSE [result EXCEPT !.status = "200", !.gen = 1,
                                            !.reply = suggested_reply,
                                            !.review_text = review.text,
                                            !.db_error = err]]
                : resp \in Responses, faultSet \in BOOLEAN}
      : faultGet \in BOOLEAN}

\* generate_reply without the 404 of lines 276-280: it goes on to the reply
\* whether or not the review was found.
generate_reply_unchecked(mem, rows, review_id) ==
    UNION {ReplyFor(rows, review_id, review)
           : review \in ResolveReview(mem, rows, review_id)}

\* POST /generate-reply: the outcomes [rows, response].
generate_reply(mem, rows, review_id) ==
    UNION {
      IF review.found
      THEN ReplyFor(rows, review_id, review)
      ELSE {[rows |-> rows,
             response |-> [NoResult EXCEPT !.op = "generate", !.id = review_id,
                              !.status = "404", !.db_error = review.db_error]]}
      : review \in ResolveReview(mem, rows, review_id)}

\* GET /reply/{review_id}: the possible responses.
get_reply(rows, review_id) ==
    {LET reply == get_suggested_reply(rows, review_id, fault)
         result == [NoResult EXCEPT !.op = "get_reply", !.id = review_id,
                                    !.db_error = fault]
     IN  IF reply = None
         THEN [result EXCEPT !.status = "404"]
         ELSE [result EXCEPT !.status = "200", !.reply = reply]
     : fault \in BOOLEAN}

\* A call of find_similar_reviews(review_id, db, reviews_db): the possible
\* outcomes as responses.
similar_reviews(mem, rows, review_id) ==
    UNION {
      {[NoResult EXCEPT !.op = "similar", !.id = review_id, !.status = out.status,
           !.db_error = fault, !.similar = out.similar]
       : out \in find_similar_reviews(review_id, rows, mem, fault)}
      : fault \in BOOLEAN}

\* ------------------------------------------------- the state machine
Idle == last.op = "idle"

\* generate_reply calls that run side by side, each at its own point of
\* the handler; none while requests are handled one at a time.
CallIds == {1, 2}
NoCall == [pc |-> "none", reply |-> None, gen |-> 0, wrote |-> 0, db_error |-> FALSE]

Init ==
    /\ reviews_db = <<>>
    /\ store = <<>>
    /\ last = NoResult
    /\ calls = [c \in CallIds |-> NoCall]

\* The process starts again: the module-level list is empty, the database
\* file is kept.
Restart ==
    /\ Idle
    /\ reviews_db /= <<>>
    /\ reviews_db' = <<>>
    /\ UNCHANGED <<store, last, calls>>

\* The response reaches the caller; the server waits for the next request.
Respond ==
    /\ ~Idle
    /\ last' = NoResult
    /\ UNCHANGED <<reviews_db, store, calls>>

IngestSingle(review) ==
    /\ Idle
    /\ \E out \in ingest_single(reviews_db, store, review) :
         /\ Len(out.mem) <= MaxMem
         /\ reviews_db' = out.mem
         /\ store' = out.rows
         /\ last' = out.response
    /\ UNCHANGED calls

IngestBatch(review) ==
    /\ Idle
    /\ \E out \in ingest_batch(reviews_db, store, review) :
         /\ Len(out.mem) <= MaxMem
         /\ reviews_db' = out.mem
         /\ store' = out.rows
         /\ last' = out.response
    /\ UNCHANGED calls

GetAllReviews ==
    /\ Idle
    /\ \E response \in get_all_reviews(reviews_db, store) : last' = response
    /\ UNCHANGED <<reviews_db, store, calls>>

GenerateReply(review_id) ==
    /\ Idle
    /\ \E out \in generate_reply(reviews_db, store, review_id) :
         /\ store' = out.rows
         /\ last' = out.response
    /\ UNCHANGED <<reviews_db, calls>>

GetReply(review_id) ==
    /\ Idle
    /\ \E response \in get_reply(store, review_id) : last' = response
    /\ UNCHANGED <<reviews_db, store, calls>>

FindSimilar(review_id) ==
    /\ Idle
    /\ \E response \in similar_reviews(reviews_db, store, review_id) : last' = response
    /\ UNCHANGED <<reviews_db, store, calls>>

Next ==
    \/ Restart
    \/ Respond
    \/ \E review \in ReviewInputs : IngestSingle(review)
    \/ \E review \in SeqsUpTo(ReviewInputs, MaxBatch) : IngestBatch(review)
    \/ GetAllReviews
    \/ \E review_id \in QueryIds : GenerateReply(review_id)
    \/ \E review_id \in QueryIds : GetReply(review_id)
    \/ \E review_id \in QueryIds : FindSimilar(review_id)

Spec == Init /\ [][Next]_vars

\* ------------------------------------------------- the enrichment functions
\* analyze_sentiment's comparisons and extract_topics on their own, over
\* every compound score and over texts of up to MaxWords words.
Words == {"Professional", "expert", "timely", "on", "time", "cleaning", "nice"}
Seps == {" ", "-"}
TokenTexts == SeqsUpTo([word : Words, sep : Seps], MaxWords)
Compounds == (-ScoreScale)..ScoreScale

\* The calls to make: one text or one compound score each.
InitEnrich ==
    /\ reviews_db = <<>>
    /\ store = <<>>
    /\ calls = [c \in CallIds |-> NoCall]
    /\ last \in {[NoResult EXCEPT !.op = "text", !.arg = tokens] : tokens \in TokenTexts}
              \cup {[NoResult EXCEPT !.op = "compound", !.arg = <<compound>>]
                     : compound \in Compounds}

ExtractTopics ==
    /\ last.op = "text"
    /\ last' = [last EXCEPT !.op = "extract_topics", !.body = extract_topics(last.arg)]
    /\ UNCHANGED <<reviews_db, store, calls>>

AnalyzeSentiment ==
    /\ last.op = "compound"
    /\ last' = [last EXCEPT !.op = "analyze_sentiment",
                            !.body = <<SentimentOf(last.arg[1])>>]
    /\ UNCHANGED <<reviews_db, store, calls>>

NextEnrich == ExtractTopics \/ AnalyzeSentiment

SpecEnrich == InitEnrich /\ [][NextEnrich]_vars

\* ------------------------------------------------- concurrent generate-reply
\* Two generate_reply calls for one persisted review without a reply, each
\* on its own thread of control with its own connection: the cache read,
\* the generator call and the write-back of a call are separate steps, and
\* the steps of the two calls interleave in every order.
ConcurrentId == IdSeq[1]

InitConcurrent ==
    /\ \E review \in ReviewInputs :
         /\ review.id = ConcurrentId
         /\ reviews_db = <<Enriched(review)>>
         /\ store = <<Row(Enriched(review))>>
    /\ last = NoResult
    /\ calls = [c \in CallIds |-> [NoCall EXCEPT !.pc = "start"]]

\* Lines 259-296: the review is found in reviews_db and the cache is read;
\* a reply found is returned.
ReadCache(c) ==
    /\ calls[c].pc = "start"
    /\ HasId(reviews_db, ConcurrentId)
    /\ \E fault \in BOOLEAN :
         LET existing_reply == get_suggested_reply(store, ConcurrentId, fault)
         IN  calls' = [calls EXCEPT ![c] =
                          IF Truthy(existing_reply)
                          THEN [@ EXCEPT !.pc = "done", !.reply = existing_reply]
                          ELSE [@ EXCEPT !.pc = "miss", !.db_error = fault]]
    /\ UNCHANGED <<reviews_db, store, last>>

\* CallGenerator that calls the service a second time when the first call
\* raised.
CallGeneratorRetry(c) ==
    /\ calls[c].pc = "miss"
    /\ \E resp \in Responses :
         calls' = [calls EXCEPT ![c] =
                      IF resp.raised /\ calls[c].gen = 0
                      THEN [@ EXCEPT !.gen = @ + 1]
                      ELSE [@ EXCEPT !.pc = "generated", !.gen = @ + 1,
                                     !.reply = GenerateReviewReply_generate_reply(resp)]]
    /\ UNCHANGED <<reviews_db, store, last>>

\* Line 301: the generator is called.
CallGenerator(c) ==
    /\ calls[c].pc = "miss"
    /\ \E resp \in Responses :
         calls' = [calls EXCEPT ![c] =
                      [@ EXCEPT !.pc = "generated", !.gen = @ + 1,
                                !.reply = GenerateReviewReply_generate_reply(resp)]]
    /\ UNCHANGED <<reviews_db, store, last>>

\* The place of the latest write-back that went through; 0 before any.
LastWrite == CHOOSE n \in 0..Cardinality(CallIds) :
                 /\ \A c \in CallIds : calls[c].wrote <= n
                 /\ n > 0 => \E c \in CallIds : calls[c].wrote = n

\* Lines 305-316: the reply is written back and returned.
WriteBack(c) ==
    /\ calls[c].pc = "generated"
    /\ \E fault \in BOOLEAN :
         LET written == add_suggested_reply(store, ConcurrentId, calls[c].reply, fault)
         IN  /\ store' = written.rows
             /\ calls' = [calls EXCEPT ![c] =
                             [@ EXCEPT !.pc = "done",
                                       !.wrote = IF written.ok THEN LastWrite + 1 ELSE 0,
                                       !.db_error = @ \/ fault]]
    /\ UNCHANGED <<reviews_db, last>>

NextConcurrent ==
    \E c \in CallIds : ReadCache(c) \/ CallGenerator(c) \/ WriteBack(c)

SpecConcurrent == InitConcurrent /\ [][NextConcurrent]_vars

\* ------------------------------------------------- generate-reply, step by step
\* The same calls from each kind of state a generate_reply can find: the
\* review in neither the list nor the store, persisted without a reply,
\* and persisted with a reply.  Every step is a call that returns (a store
\* call, the generator call), so a call that can take a step takes it.
InitCalls ==
    /\ \/ reviews_db = <<>> /\ store = <<>>
       \/ \E review \in ReviewInputs :
            /\ review.id = ConcurrentId
            /\ reviews_db = <<Enriched(review)>>
            /\ \E reply \in {None} \cup
                            {GenerateReviewReply_generate_reply(resp) : resp \in Responses} :
                 store = <<[Row(Enriched(review)) EXCEPT !.suggested_reply = reply]>>
    /\ last = NoResult
    /\ calls = [c \in CallIds |-> [NoCall EXCEPT !.pc = "start"]]

\* Lines 259-280: the review is in neither reviews_db nor the rows read
\* from the store; the call ends with the 404.
NotFound(c) ==
    /\ calls[c].pc = "start"
    /\ \E review \in ResolveReview(reviews_db, store, ConcurrentId) :
         /\ ~review.found
         /\ calls' = [calls EXCEPT ![c] =
                         [@ EXCEPT !.pc = "done", !.db_error = review.db_error]]
    /\ UNCHANGED <<reviews_db, store, last>>

CallStep(c) == NotFound(c) \/ ReadCache(c) \/ CallGenerator(c) \/ WriteBack(c)

NextCalls == \E c \in CallIds : CallStep(c)

SpecCalls ==
    InitCalls /\ [][NextCalls]_vars /\ \A c \in CallIds : WF_vars(CallStep(c))

\* ------------------------------------------------- properties
\* The suggested_reply column of the row with this id; None without a row.
StoredReply(rows, id) ==
    IF HasId(rows, id) THEN FirstWithId(rows, id).suggested_reply ELSE None

HasDuplicateIds(seq) ==
    \E i, j \in 1..Len(seq) : i /= j /\ seq[i].id = seq[j].id

\* The positions of seq that hold this id.
IndicesOf(seq, id) == {i \in 1..Len(seq) : seq[i].id = id}

\* What a successful durable read of all reviews yields.
StoreDicts(rows) == [i \in 1..Len(rows) |-> RowDict(rows[i])]

\* C1: right after a generate-reply for an id answered 200 with reply r, a
\* second generate-reply for that id answers 200 with the same r, and the
\* two calls together invoke the generator at most once.  (Stated for a
\* second call none of whose store calls fails.)
C1_RepeatedGenerateIsCacheHit ==
    (last.op = "generate" /\ last.status = "200") =>
        \A out \in generate_reply(reviews_db, store, last.id) :
            ~out.response.db_error =>
                /\ out.response.status = "200"
                /\ out.response.reply = last.reply
                /\ last.gen + out.response.gen <= 1

\* C2: once a non-empty suggested_reply is stored for an id, no request
\* changes or clears it, and every generate-reply for that id returns it
\* without invoking the generator.
C2_StoredReplyIsOneWay ==
    [][\A id \in Ids :
          Truthy(StoredReply(store, id)) =>
              /\ StoredReply(store', id) = StoredReply(store, id)
              /\ (last'.op = "generate" /\ last'.id = id) =>
                    /\ last'.status = "200"
                    /\ last'.reply = StoredReply(store, id)
                    /\ last'.gen = 0]_vars

\* C3: right after a generate-reply for an id answered 200 with reply r, a
\* get-reply for that id answers 200 with exactly r.  (Stated for a get-reply
\* whose store read does not fail.)
C3_GetReplyAfterGenerate ==
    (last.op = "generate" /\ last.status = "200") =>
        \A response \in get_reply(store, last.id) :
            ~response.db_error =>
                response.status = "200" /\ response.reply = last.reply

\* C4: a single-review ingest whose id has a row in the store is answered
\* 400 and changes neither the store nor the in-memory list.
C4_PersistedIdRejected ==
    [][(last'.op = "ingest" /\ HasId(store, last'.arg[1].id)) =>
          /\ last'.status = "400"
          /\ store' = store
          /\ reviews_db' = reviews_db]_vars

\* C5: a batch ingest that holds the same id twice is answered 400 and adds
\* no review to the in-memory list or to the store.
C5_BatchDuplicateRejected ==
    [][(last'.op = "ingest_batch" /\ HasDuplicateIds(last'.arg)) =>
          /\ last'.status = "400"
          /\ store' = store
          /\ reviews_db' = reviews_db]_vars

\* C6: add_reviews_batch is all-or-nothing.  Whenever the ingest handler
\* calls it: if an id of the batch occurs twice in the batch or has a row
\* in the store, it returns False and the store is as before; otherwise it
\* stores a row for every review of the batch, in order, and returns True
\* (when the store raises an error instead, it returns False and the store
\* is as before).
C6_BatchAllOrNothing ==
    [][(last'.op = "ingest_batch" /\ last'.status = "200") =>
          LET batch == last'.body
          IN  IF HasDuplicateIds(batch) \/ \E i \in 1..Len(batch) : HasId(store, batch[i].id)
              THEN ~last'.stored /\ store' = store
              ELSE IF last'.db_error
              THEN ~last'.stored /\ store' = store
              ELSE /\ last'.stored
                   /\ store' = store \o [i \in 1..Len(batch) |-> Row(batch[i])]]_vars

\* C6 witness: a batch whose first review is new to the store and whose
\* second review collides was handed to add_reviews_batch, which failed
\* and left the non-empty store without the first review.
C6_Witness ==
    /\ last.op = "ingest_batch" /\ last.status = "200"
    /\ ~last.db_error /\ ~last.stored
    /\ Len(last.body) >= 2
    /\ ~HasId(store, last.body[1].id)
    /\ HasId(store, last.body[2].id)

\* C7: add_review for an id that has a row returns False and leaves the
\* table, that row's suggested_reply included, as it was.
C7_DuplicateInsertFails ==
    [][(last'.op = "ingest" /\ last'.status = "200" /\ HasId(store, last'.body[1].id)) =>
          ~last'.stored /\ store' = store]_vars

\* C7 witness: add_review was called, without a store error, for an id
\* whose row holds another text and a reply; the row still holds them.
C7_Witness ==
    /\ last.op = "ingest" /\ last.status = "200"
    /\ ~last.db_error /\ ~last.stored
    /\ HasId(store, last.body[1].id)
    /\ FirstWithId(store, last.body[1].id).text /= last.body[1].text
    /\ Truthy(StoredReply(store, last.body[1].id))

\* C8 as claimed: whenever the durable read succeeded, list-reviews
\* returns the store's reviews (the in-memory list only on a read error).
C8_MemoryOnlyOnReadError ==
    (last.op = "list" /\ ~last.db_error) => last.body = StoreDicts(store)

\* C8 amended: list-reviews returns the store's reviews when the durable
\* read succeeded and found at least one row; it returns the in-memory
\* list when the read failed and also when it succeeded on an empty store.
C8_ListFallback ==
    last.op = "list" =>
        /\ last.status = "200"
        /\ last.body = IF ~last.db_error /\ store /= <<>>
                       THEN StoreDicts(store) ELSE reviews_db

\* C8 witness: the read succeeded on an empty store and the response is
\* the non-empty in-memory list.
C8_Witness ==
    /\ last.op = "list" /\ ~last.db_error
    /\ store = <<>> /\ reviews_db /= <<>>
    /\ last.body = reviews_db

\* C9: when the query id is in the corpus, every list find_similar_reviews
\* returns has exactly min(2, corpus size - 1) ids, none of them the query id.
C9_SimilarCountAndExclusion ==
    LET corpus == Corpus(store, reviews_db, last.db_error)
    IN  (last.op = "similar" /\ HasId(corpus, last.id) /\ last.status = "ok") =>
            /\ Len(last.similar) = Min(2, Len(corpus) - 1)
            /\ \A k \in 1..Len(last.similar) : last.similar[k] /= last.id

\* C10: find_similar_reviews returns the empty sequence, without an error,
\* whenever the corpus has fewer than 2 reviews, and raises the not-found
\* error whenever the corpus has at least 2 reviews and lacks the query id.
C10_SmallCorpusAndNotFound ==
    LET corpus == Corpus(store, reviews_db, last.db_error)
    IN  last.op = "similar" =>
            /\ Len(corpus) < 2 => (last.status = "ok" /\ last.similar = <<>>)
            /\ (Len(corpus) >= 2 /\ ~HasId(corpus, last.id)) => last.status = "not_found"

\* C10 witness: the call was made for an id that a corpus of two persisted
\* reviews lacks, and raised the not-found error.
C10_Witness ==
    LET corpus == Corpus(store, reviews_db, last.db_error)
    IN  /\ last.op = "similar" /\ ~last.db_error
        /\ Len(store) = 2 /\ corpus = StoreDicts(store)
        /\ ~HasId(corpus, last.id)
        /\ last.status = "not_found"

\* C11: a generate-reply for an id that neither the in-memory list nor the
\* store holds is answered 404, does not invoke the generator and leaves
\* the in-memory list and the store as they were.
C11_UnknownIdIs404 ==
    [][(/\ last'.op = "generate"
        /\ ~HasId(reviews_db, last'.id)
        /\ ~HasId(store, last'.id)) =>
          /\ last'.status = "404"
          /\ last'.gen = 0
          /\ store' = store
          /\ reviews_db' = reviews_db]_vars

\* C11 witness: the 404 was given for an id that can be ingested, while the
\* store and the in-memory list hold another review.
C11_Witness ==
    /\ last.op = "generate" /\ last.status = "404" /\ last.gen = 0
    /\ last.id \in Ids
    /\ store /= <<>> /\ reviews_db /= <<>>
    /\ ~HasId(store, last.id) /\ ~HasId(reviews_db, last.id)

\* C12: a get-reply is answered 404 exactly when the store holds no reply
\* for the id (none generated yet, or no such id); when a reply is stored
\* it is answered 200 with that reply; and it changes neither the store nor
\* the in-memory list.
C12_GetReply404IffNoReply ==
    [][last'.op = "get_reply" =>
          /\ last'.status = "404" <=> StoredReply(store, last'.id) = None
          /\ StoredReply(store, last'.id) /= None =>
                (last'.status = "200" /\ last'.reply = StoredReply(store, last'.id))
          /\ store' = store
          /\ reviews_db' = reviews_db]_vars

\* C13: whenever generate-reply invoked the generator, what the generator
\* returned is a non-empty string.
C13_GeneratorNeverEmpty ==
    (last.op = "generate" /\ last.gen = 1) =>
        (last.status = "200" /\ Truthy(last.reply))

\* C14: of two single-review ingests for one id that arrive together, the
\* one handled first is answered 200 and the other 400 without effect, and
\* afterwards the in-memory list and the store each hold exactly one record
\* for the id, the winner's.  Stated in the state right after the winner
\* was answered, for a winner whose store call raised no error: every
\* outcome of the other request is the 400.
C14_ConcurrentIngestOneWinner ==
    (last.op = "ingest" /\ last.status = "200" /\ ~last.db_error) =>
        LET winner == last.body[1]
        IN  /\ \A other \in ReviewInputs :
                  other.id = winner.id =>
                      \A out \in ingest_single(reviews_db, store, other) :
                          /\ out.response.status = "400"
                          /\ out.mem = reviews_db
                          /\ out.rows = store
            /\ \E i \in 1..Len(reviews_db) :
                  IndicesOf(reviews_db, winner.id) = {i} /\ reviews_db[i] = winner
            /\ \E i \in 1..Len(store) :
                  /\ IndicesOf(store, winner.id) = {i}
                  /\ [store[i] EXCEPT !.suggested_reply = None] = Row(winner)

\* Whether a keyword of the i-th topic of TOPIC_KEYWORDS occurs in the text.
TopicMatches(i, tokens) ==
    \E k \in 1..Len(TOPIC_KEYWORDS[i].keywords) :
        Search(TOPIC_KEYWORDS[i].keywords[k], Lower(tokens))

\* The place of a topic in TOPIC_KEYWORDS.
TopicIndex(topic) ==
    CHOOSE i \in 1..Len(TOPIC_KEYWORDS) : TOPIC_KEYWORDS[i].topic = topic

\* C15: extract_topics never returns an empty list; it returns exactly
\* ["general"] when no keyword of any topic occurs in the text, and
\* otherwise the topics with a keyword in the text, in the dictionary's
\* order, each once and without "general".
C15_TopicsNeverEmpty ==
    last.op = "extract_topics" =>
        LET topics == last.body
            hit == {i \in 1..Len(TOPIC_KEYWORDS) : TopicMatches(i, last.arg)}
        IN  /\ topics /= <<>>
            /\ hit = {} => topics = <<"general">>
            /\ hit /= {} =>
                  /\ \A k \in 1..Len(topics) :
                        /\ topics[k] /= "general"
                        /\ \E i \in hit : TOPIC_KEYWORDS[i].topic = topics[k]
                  /\ \A i \in hit :
                        \E k \in 1..Len(topics) : topics[k] = TOPIC_KEYWORDS[i].topic
                  /\ \A j, k \in 1..Len(topics) :
                        j < k => TopicIndex(topics[j]) < TopicIndex(topics[k])

\* C15 witness: a text with two keywords of one topic got that topic once.
C15_Witness ==
    /\ last.op = "extract_topics"
    /\ Len(last.arg) = 2
    /\ last.arg[1].word = "Professional" /\ last.arg[2].word = "expert"
    /\ last.body = <<"professionalism">>

\* C16: analyze_sentiment gives every compound score exactly one label:
\* positive from 0.05 up, negative from -0.05 down, neutral strictly
\* between; 0.05 itself is positive and -0.05 itself negative.
C16_SentimentThresholds ==
    last.op = "analyze_sentiment" =>
        LET compound == last.arg[1]
            label == last.body[1]
        IN  /\ label \in {"positive", "negative", "neutral"}
            /\ label = "positive" <=> compound >= Threshold
            /\ label = "negative" <=> compound <= -Threshold
            /\ label = "neutral" <=> (-Threshold < compound /\ compound < Threshold)

\* C16 witness: the score 0.05 itself was labelled positive.
C16_Witness ==
    /\ last.op = "analyze_sentiment"
    /\ last.arg[1] = Threshold
    /\ last.body = <<"positive">>

\* What the generator can return.
GeneratedReplies == {GenerateReviewReply_generate_reply(resp) : resp \in Responses}

\* C17: when generate-reply found the review, invoked the generator and the
\* write-back stored nothing (the UPDATE raised, or the store has no row
\* with the id), it still answers 200 with the reply the generator gave.
C17_FailedWriteBackStillSucceeds ==
    [][(/\ last'.op = "generate" /\ last'.gen = 1
        /\ store' = store) =>
          /\ last'.status = "200"
          /\ last'.reply \in GeneratedReplies
          /\ last'.review_text /= None]_vars

\* C17 witness: the review has a row, the UPDATE raised, and the answer is
\* 200 with a generated reply that the row does not hold.
C17_Witness ==
    /\ last.op = "generate" /\ last.gen = 1 /\ last.db_error
    /\ HasId(store, last.id)
    /\ StoredReply(store, last.id) = None
    /\ last.status = "200"
    /\ last.reply \in GeneratedReplies /\ Truthy(last.reply)

\* C18: no step deletes a persisted review or changes its id, location,
\* rating, date, text, sentiment or topics; the suggested_reply of a row
\* changes only in a generate-reply for that row's id.
C18_PersistedReviewFrame ==
    [][\/ store' = store
       \/ /\ Len(store') >= Len(store)
          /\ \A i \in 1..Len(store) :
                /\ [store'[i] EXCEPT !.suggested_reply = None]
                       = [store[i] EXCEPT !.suggested_reply = None]
                /\ store'[i].suggested_reply /= store[i].suggested_reply =>
                       (last'.op = "generate" /\ last'.id = store[i].id)]_vars

\* C18 witness: a generate-reply has written its reply to one of two
\* persisted reviews, and the other one's row has none.
C18_Witness ==
    /\ last.op = "generate" /\ last.gen = 1 /\ Truthy(last.reply)
    /\ Len(store) = 2
    /\ StoredReply(store, last.id) = last.reply
    /\ \E i \in 1..Len(store) :
          store[i].id /= last.id /\ store[i].suggested_reply = None

\* C19: an ingest, single or batch, none of whose ids is in the in-memory
\* list and whose write to the store fails is answered 200 with the
\* enriched reviews, which are appended to the in-memory list; the store
\* is as before.
C19_FailedWriteKeepsIngest ==
    [][(/\ last'.op \in {"ingest", "ingest_batch"}
        /\ \A i \in 1..Len(last'.arg) : ~HasId(reviews_db, last'.arg[i].id)
        /\ ~last'.stored) =>
          /\ last'.status = "200"
          /\ last'.body = [i \in 1..Len(last'.arg) |-> Enriched(last'.arg[i])]
          /\ reviews_db' = reviews_db \o last'.body
          /\ store' = store]_vars

\* C19 witness: a batch of two reviews whose write raised an error was
\* answered 200 and is at the end of the in-memory list, and the store has
\* neither review.
C19_Witness ==
    /\ last.op = "ingest_batch" /\ last.db_error /\ ~last.stored
    /\ last.status = "200"
    /\ Len(last.body) = 2 /\ last.body[1].id /= last.body[2].id
    /\ Len(reviews_db) >= 2
    /\ \A i \in 1..2 :
          /\ reviews_db[Len(reviews_db) - 2 + i] = last.body[i]
          /\ ~HasId(store, last.body[i].id)

\* Both concurrent calls have returned.
AllDone == \A c \in CallIds : calls[c].pc = "done"

\* C20 as claimed: when both concurrent generate-reply calls have returned,
\* the store holds one row for the id and its reply is the reply each call
\* returned.  (Stated for runs in which no store call raised an error.)
C20_ConcurrentCallersAgree ==
    (AllDone /\ \A c \in CallIds : ~calls[c].db_error) =>
        /\ Cardinality(IndicesOf(store, ConcurrentId)) = 1
        /\ \A c \in CallIds : calls[c].reply = StoredReply(store, ConcurrentId)

\* C20 amended: the store holds one row for the id throughout; its reply
\* is the one of the call whose write-back went through last (none before
\* any did), and every call that has returned has returned a reply it read
\* from the row or got from the generator.
C20_LastWriterWins ==
    /\ Cardinality(IndicesOf(store, ConcurrentId)) = 1
    /\ LastWrite = 0 => StoredReply(store, ConcurrentId) = None
    /\ \A c \in CallIds :
          /\ (calls[c].wrote > 0 /\ calls[c].wrote = LastWrite) =>
                StoredReply(store, ConcurrentId) = calls[c].reply
          /\ calls[c].pc = "done" => calls[c].reply \in GeneratedReplies

\* C20 witness: both calls missed the cache, invoked the generator and
\* wrote back without an error; they returned different replies and the
\* row holds the one written last.
C20_Witness ==
    /\ AllDone
    /\ \A c \in CallIds : calls[c].gen = 1 /\ calls[c].wrote > 0 /\ ~calls[c].db_error
    /\ calls[1].reply /= calls[2].reply
    /\ \E c \in CallIds :
          calls[c].wrote = LastWrite /\ StoredReply(store, ConcurrentId) = calls[c].reply

\* C21: every generate-reply call comes to its end, and on its way invokes
\* the generator zero times or once: from its start a call either ends at
\* once, without the generator (the review is not found, or a reply is
\* read from the store), or finds no reply, invokes the generator exactly
\* once, writes back and ends.
C21_TerminatesOneAttempt ==
    /\ <>AllDone
    /\ [][\A c \in CallIds :
            calls'[c] /= calls[c] =>
                CASE calls[c].pc = "start" ->
                       /\ calls'[c].gen = 0
                       /\ calls'[c].pc \in {"done", "miss"}
                       /\ calls'[c].pc = "done" <=>
                             \/ ~HasId(reviews_db, ConcurrentId)
                             \/ calls'[c].reply = StoredReply(store, ConcurrentId)
                                   /\ Truthy(calls'[c].reply)
                  [] calls[c].pc = "miss" ->
                       calls'[c].gen = 1 /\ calls'[c].pc = "generated"
                  [] calls[c].pc = "generated" ->
                       calls'[c].gen = 1 /\ calls'[c].pc = "done"
                  [] OTHER -> FALSE]_vars

\* C21 witness: both calls have ended; one found no reply and invoked the
\* generator once, the other read that reply from the store and did not
\* invoke it.
C21_Witness ==
    /\ AllDone
    /\ \E c, d \in CallIds :
          /\ calls[c].gen = 1 /\ calls[c].wrote > 0
          /\ calls[d].gen = 0 /\ Truthy(calls[d].reply)
          /\ calls[d].reply = calls[c].reply

\* The review a listed dict stands for: the dict without its suggested_reply.
ReviewOf(d) ==
    [id |-> d.id, location |-> d.location, rating |-> d.rating, date |-> d.date,
     text |-> d.text, sentiment |-> d.sentiment, topics |-> d.topics]

\* C22: every review an ingest has answered 200 for is in the result of
\* every later list-reviews call.  Stated in the state right after the
\* ingest was answered, for every response the next list-reviews can give.
C22_AckedReviewsAreListed ==
    (last.op \in {"ingest", "ingest_batch"} /\ last.status = "200") =>
        \A response \in get_all_reviews(reviews_db, store) :
            \A i \in 1..Len(last.body) :
                \E k \in 1..Len(response.body) :
                    ReviewOf(response.body[k]) = last.body[i]

\* C23: a review of the in-memory list and a row of the store with the same
\* id have the same text, and a generate-reply answered 200 for an id with
\* a row returns that row's text as review_text.
C23_MemoryAndStoreAgreeOnText ==
    /\ \A i \in 1..Len(reviews_db) : \A j \in 1..Len(store) :
          reviews_db[i].id = store[j].id => reviews_db[i].text = store[j].text
    /\ (last.op = "generate" /\ last.status = "200" /\ HasId(store, last.id)) =>
          last.review_text = FirstWithId(store, last.id).text

\* C24: the in-memory list never holds two entries with one id.
C24_MemoryIdsUnique == ~HasDuplicateIds(reviews_db)

====
